---- MODULE Spec2Model ----
(***************************************************************************)
(* The DNA barcode analysis service: src/backend/app.py (Flask, in-memory  *)
(* DNA_DATABASE) and src/server/app.py (FastAPI, MongoDB collection).      *)
(*                                                                         *)
(* Python values are modelled as follows.                                  *)
(*   str    a tuple of one-character strings, "AT" is <<"A", "T">>         *)
(*   dict   an ordered mapping: a tuple of <<key, value>> pairs in         *)
(*          insertion order (BARCODE_REGIONS, a plant's "barcodes"); a     *)
(*          plant document itself is a record whose optional keys are      *)
(*          tested with DOMAIN                                             *)
(*   float  an exact fraction [num, den]; the scores are quotients of      *)
(*          integers below 100, for which float comparison and fraction    *)
(*          comparison agree                                               *)
(*   None   the record None                                                *)
(*   raise  a value that carries the exception's name                      *)
(***************************************************************************)
EXTENDS Integers, Sequences, FiniteSets, TLC

VARIABLES
    app,              \* which of the two services runs: "backend" or "server"
    barcode_regions,  \* the module global BARCODE_REGIONS
    collection,       \* backend: the global DNA_DATABASE; server: db["barcodes"]
    request,          \* the request a client has sent
    response,         \* the response to it, None until its handler has run
    frame,            \* the frame analyze_dna_sequence returned from, None before
    args,             \* operands of a direct call of calculate_similarity
    ret,              \* what that call returned
    threads           \* backend: the request threads of the Flask server

vars == <<app, barcode_regions, collection, request, response, frame, args, ret, threads>>

-----------------------------------------------------------------------------
(* Bounds of the model *)

\* longest raw text posted to /api/analyze, besides the literal examples
MaxRawLen == 2
\* most documents in the server's collection
MaxPlants == 2
\* longest operand of a direct call of calculate_similarity
MaxSeqLen == 3
\* concurrent request threads of the backend
MaxThreads == 2

-----------------------------------------------------------------------------
(* Reference data *)

ITS_REFERENCE ==
    <<"C","G","T","A","A","C","A","A","G","G","T","T","T","C","C","G","T","A","G","G","T",
      "G","A","A","C","C","T","G","C","G","G","A","A","G","G","A","T","C","A","T","T","G">>

RBCL_REFERENCE ==
    <<"A","T","G","T","C","A","C","C","A","C","A","A","A","C","A","G","A","G","A","C","T",
      "A","A","A","G","C","A","A","G","T">>

MATK_REFERENCE ==
    <<"A","C","C","C","A","G","T","C","C","A","T","C","T","G","G","A","A","A","T","C","T",
      "T","G","G","T","T","C","A","G","G">>


\* dict literal, insertion order ITS, RBCL, MATK
BARCODE_REGIONS ==
    << <<"ITS", ITS_REFERENCE>>, <<"RBCL", RBCL_REFERENCE>>, <<"MATK", MATK_REFERENCE>> >>

PANAX_ITS ==
    <<"C","G","T","A","A","C","A","A","G","G","T","T","T","C","C","G","T","A","G","G","T",
      "G","A","A","C","C","T","G","C","G","G","A","A","G","G","A","T","C","A","T","T","G",
      "T","C","G","A","A","A","C","C","T","G","C","A","T","A","G","C","A","G","A","A">>

PANAX_RBCL ==
    <<"A","T","G","T","C","A","C","C","A","C","A","A","A","C","A","G","A","G","A","C","T",
      "A","A","A","G","C","A","A","G","T","G","T","T","G","G","A","T","T","C","A","A","A",
      "G","C","T","G","G","T","G","T","T","A","A","A">>

PANAX_MATK ==
    <<"A","C","C","C","A","G","T","C","C","A","T","C","T","G","G","A","A","A","T","C","T",
      "T","G","G","T","T","C","A","G","G","A","C","T","C","C","C","C","T","T","C","T","T",
      "A","T","A","T","A","A","T","T","C","T">>

BASIL_ITS ==
    <<"C","G","T","A","A","C","A","A","G","G","T","T","T","C","C","G","T","A","G","G","T",
      "G","A","A","C","C","T","G","C","G","G","A","A","G","G","A","T","C","A","T","T","G",
      "T","C","G","A","A","A","C","C","T","G","C","A","T","A","G","C","A","G","A">>

BASIL_RBCL ==
    <<"A","T","G","T","C","A","C","C","A","C","A","A","A","C","A","G","A","G","A","C","T",
      "A","A","A","G","C","A","A","G","T","G","T","T","G","G","A","T","T","C","A","A","A",
      "G","C","T","G","G","T","G","T">>

BASIL_MATK ==
    <<"A","C","C","C","A","G","T","C","C","A","T","C","T","G","G","A","A","A","T","C","T",
      "T","G","G","T","T","C","A","G","G","A","C","T","C","C","C","C","C","T","A","T","A",
      "T","A","A","T","T","C","T">>

TURMERIC_ITS ==
    <<"C","G","T","A","A","C","A","A","G","G","T","T","T","C","C","G","T","A","G","G","T",
      "G","A","A","C","C","T","G","C","G","G","A","A","G","G","A","T","C","A","T","T","G",
      "A","G","T","G","A","A","A","C","C","T","G","C">>

TURMERIC_RBCL ==
    <<"A","T","G","T","C","A","C","C","A","C","A","A","A","C","A","G","A","G","A","C","T",
      "A","A","A","G","C","A","A","G","T","G","T","T","G","G","A","T","T","T","A","A","A",
      "G","C","T","G","G","T","G","T","T">>

TURMERIC_MATK ==
    <<"A","C","C","C","A","G","T","C","C","A","T","C","T","G","G","A","A","A","T","C","T",
      "T","G","G","T","T","C","A","G","G","A","C","T","C","C","C","T","T","C","T","A","T",
      "A","T","A","A","T","T","C","T","C","A","T","G">>


Fraction(n, d) == [num |-> n, den |-> d]

\* a float literal 0.97 is the fraction 97/100
Hundredths(n) == Fraction(n, 100)

Plant(species, commonName, its, rbcl, matk, authenticity) ==
    [species |-> species, commonName |-> commonName,
     barcodes |-> << <<"ITS", its>>, <<"RBCL", rbcl>>, <<"MATK", matk>> >>,
     authenticity |-> authenticity]

DNA_DATABASE ==
    << Plant("Panax ginseng", "Asian Ginseng",
             PANAX_ITS, PANAX_RBCL, PANAX_MATK, Hundredths(97)),
       Plant("Ocimum basilicum", "Sweet Basil",
             BASIL_ITS, BASIL_RBCL, BASIL_MATK, Hundredths(95)),
       Plant("Curcuma longa", "Turmeric",
             TURMERIC_ITS, TURMERIC_RBCL, TURMERIC_MATK, Hundredths(92)) >>

-----------------------------------------------------------------------------
(* Python primitives *)

None == [py |-> "None"]

\* the value of ret before calculate_similarity is called
NotCalled == [called |-> FALSE]

\* how a call ends: with a value, or with an exception
Return(v) == [value |-> v]
Raise(exc) == [raise |-> exc]
IsRaise(r) == "raise" \in DOMAIN r

Min(a, b) == IF a < b THEN a ELSE b

\* every tuple of at most n elements of S
RECURSIVE SeqsUpTo(_, _)
SeqsUpTo(S, n) ==
    IF n = 0 THEN {<<>>}
    ELSE LET shorter == SeqsUpTo(S, n - 1)
         IN  shorter \cup {Append(s, c) : s \in shorter, c \in S}

\* float comparison and equality, on fractions with positive denominators
float_gt(a, b) == a.num * b.den > b.num * a.den
float_eq(a, b) == a.num * b.den = b.num * a.den
float_mul(a, b) == Fraction(a.num * b.num, a.den * b.den)

\* the characters of the model, and the ones the pattern \s matches
Characters ==
    {"A", "T", "G", "C", "N", "a", "t", "g", "c", "n", "x", "y", "z",
     "1", "2", "3", " ", "\t", "\n"}
Whitespace == {" ", "\t", "\n"}

\* str.upper(), character by character
upper_char(c) ==
    CASE c = "a" -> "A" [] c = "t" -> "T" [] c = "g" -> "G" [] c = "c" -> "C"
      [] c = "n" -> "N" [] c = "x" -> "X" [] c = "y" -> "Y" [] c = "z" -> "Z"
      [] OTHER -> c
upper(s) == [i \in 1..Len(s) |-> upper_char(s[i])]

\* re.sub(r'\s', '', s)
not_whitespace(c) == c \notin Whitespace
re_sub_whitespace(s) == SelectSeq(s, not_whitespace)

\* bool(re.match(r'^[ATGC]+$', s)): one or more of A, T, G, C up to the end of
\* the string, where $ also matches just before a newline that ends the string
re_match_ATGC(s) ==
    \E n \in 1..Len(s) :
        /\ \A i \in 1..n : s[i] \in {"A", "T", "G", "C"}
        /\ \/ n = Len(s)
           \/ n = Len(s) - 1 /\ s[Len(s)] = "\n"

-----------------------------------------------------------------------------
(* Utility functions *)

\* a validation that leaves the case of the text as it is
validate_dna_sequence_case_sensitive(sequence) ==
    LET clean_sequence == re_sub_whitespace(sequence)
    IN  re_match_ATGC(clean_sequence)

validate_dna_sequence(sequence) ==
    LET clean_sequence == re_sub_whitespace(upper(sequence))
    IN  re_match_ATGC(clean_sequence)

\* sum(1 for i in range(n) if seq1[i] == seq2[i])
RECURSIVE sum_matches(_, _, _)
sum_matches(seq1, seq2, n) ==
    IF n = 0 THEN 0
    ELSE sum_matches(seq1, seq2, n - 1) + (IF seq1[n] = seq2[n] THEN 1 ELSE 0)

\* src/backend/app.py: matches / shortest_length, unguarded
backend_calculate_similarity(seq1, seq2) ==
    LET shortest_length == Min(Len(seq1), Len(seq2))
        matches == sum_matches(seq1, seq2, shortest_length)
    IN  IF shortest_length = 0
        THEN Raise("ZeroDivisionError")
        ELSE Return(Fraction(matches, shortest_length))

\* a scorer that counts the overhang of the longer operand as mismatches
server_calculate_similarity_over_longest(seq1, seq2) ==
    LET shortest_length == Min(Len(seq1), Len(seq2))
        longest_length == Len(seq1) + Len(seq2) - shortest_length
        matches == sum_matches(seq1, seq2, shortest_length)
    IN  IF shortest_length > 0
        THEN Return(Fraction(matches, longest_length))
        ELSE Return(Fraction(0, 1))

\* src/server/app.py: matches / shortest_length if shortest_length > 0 else 0
server_calculate_similarity(seq1, seq2) ==
    LET shortest_length == Min(Len(seq1), Len(seq2))
        matches == sum_matches(seq1, seq2, shortest_length)
    IN  IF shortest_length > 0
        THEN Return(Fraction(matches, shortest_length))
        ELSE Return(Fraction(0, 1))

calculate_similarity(seq1, seq2) ==
    IF app = "backend"
    THEN backend_calculate_similarity(seq1, seq2)
    ELSE server_calculate_similarity(seq1, seq2)

\* dict.get(key) on an ordered mapping: the value of the first pair with this key
has_key(d, key) == \E i \in 1..Len(d) : d[i][1] = key
dict_get(d, key) == d[CHOOSE i \in 1..Len(d) : d[i][1] = key][2]

\* a turn of the classifier's loop that takes a region on score >= highest_score
classify_region_last_wins(loc, item, sequence) ==
    LET region == item[1]
        reference_sequence == item[2]
        score == calculate_similarity(sequence, reference_sequence)
    IN  IF IsRaise(loc) THEN loc
        ELSE IF IsRaise(score) THEN score
        ELSE IF ~float_gt(loc.highest_score, score.value)
             THEN [best_match |-> region, highest_score |-> score.value]
             ELSE loc

\* one turn of the loop over BARCODE_REGIONS.items(); loc holds best_match and
\* highest_score, or the exception that ended the loop
classify_region(loc, item, sequence) ==
    LET region == item[1]
        reference_sequence == item[2]
        score == calculate_similarity(sequence, reference_sequence)
    IN  IF IsRaise(loc) THEN loc
        ELSE IF IsRaise(score) THEN score
        ELSE IF float_gt(score.value, loc.highest_score)
             THEN [best_match |-> region, highest_score |-> score.value]
             ELSE loc

RECURSIVE classify_regions(_, _, _)
classify_regions(sequence, items, n) ==
    IF n = 0 THEN [best_match |-> "", highest_score |-> Fraction(0, 1)]
    ELSE classify_region(classify_regions(sequence, items, n - 1), items[n], sequence)

identify_barcode_region(sequence) ==
    LET loc == classify_regions(sequence, barcode_regions, Len(barcode_regions))
    IN  IF IsRaise(loc) THEN loc ELSE Return(loc.best_match)

\* an authenticity that defaults to 0
plant_authenticity_default_zero(plant) ==
    IF "authenticity" \in DOMAIN plant THEN Return(plant.authenticity)
    ELSE IF app = "backend" THEN Raise("KeyError")
    ELSE Return(Fraction(0, 1))

\* the plant's authenticity: backend plant["authenticity"], server
\* plant.get("authenticity", 1)
plant_authenticity(plant) ==
    IF "authenticity" \in DOMAIN plant THEN Return(plant.authenticity)
    ELSE IF app = "backend" THEN Raise("KeyError")
    ELSE Return(Fraction(1, 1))

\* barcodes read as plant["barcodes"] in the server too
plant_barcodes_indexed(plant) ==
    IF "barcodes" \in DOMAIN plant THEN Return(plant.barcodes)
    ELSE Raise("KeyError")

\* the plant's barcodes: backend plant["barcodes"], server plant.get("barcodes", {})
plant_barcodes(plant) ==
    IF "barcodes" \in DOMAIN plant THEN Return(plant.barcodes)
    ELSE IF app = "backend" THEN Raise("KeyError")
    ELSE Return(<<>>)

(* analyze_dna_sequence, as the steps of its frame f:                       *)
(*   pc       "classify", "scan" or "return"                                *)
(*   bound    the locals assigned so far                                    *)
(*   scanned  how many plants the loop has taken from the collection        *)
(*   outcome  once pc = "return": Return(None), Return(match) or Raise(exc) *)

\* if not validate_dna_sequence(sequence): return None
analyze_enter(sequence) ==
    LET f == [sequence |-> sequence, pc |-> "classify", bound |-> {},
              clean_sequence |-> <<>>, barcode_region |-> "",
              best_match |-> None, highest_score |-> Fraction(0, 1),
              scanned |-> 0, outcome |-> None]
    IN  IF ~validate_dna_sequence(sequence)
        THEN [f EXCEPT !.pc = "return", !.outcome = Return(None)]
        ELSE f

\* clean_sequence = ...; barcode_region = identify_barcode_region(clean_sequence);
\* best_match = None; highest_score = 0
analyze_classify(f) ==
    LET clean_sequence == re_sub_whitespace(upper(f.sequence))
        barcode_region == identify_barcode_region(clean_sequence)
    IN  IF IsRaise(barcode_region)
        THEN [f EXCEPT !.clean_sequence = clean_sequence,
                       !.bound = {"clean_sequence"},
                       !.pc = "return", !.outcome = barcode_region]
        ELSE [f EXCEPT !.clean_sequence = clean_sequence,
                       !.barcode_region = barcode_region.value,
                       !.bound = {"clean_sequence", "barcode_region",
                                  "best_match", "highest_score"},
                       !.pc = "scan"]

\* the dict a better plant is recorded as
match_dict(plant, authenticity, score, barcode_region, clean_sequence) ==
    [matchedSpecies |-> plant.species,
     commonName |-> plant.commonName,
     confidenceScore |-> float_mul(authenticity, score),
     matchPercentage |-> float_mul(score, Fraction(100, 1)),
     barcodeRegion |-> barcode_region,
     sequence |-> clean_sequence]

\* a loop body that takes a plant on score >= highest_score
analyze_scan_last_wins(f, plant) ==
    LET g == [f EXCEPT !.scanned = @ + 1]
        barcodes == plant_barcodes(plant)
        plant_barcode == dict_get(barcodes.value, f.barcode_region)
        score == calculate_similarity(f.clean_sequence, plant_barcode)
        authenticity == plant_authenticity(plant)
    IN  IF IsRaise(barcodes)
        THEN [g EXCEPT !.pc = "return", !.outcome = barcodes]
        ELSE IF ~has_key(barcodes.value, f.barcode_region) \/ plant_barcode = <<>>
        THEN g
        ELSE IF IsRaise(score)
        THEN [g EXCEPT !.pc = "return", !.outcome = score]
        ELSE IF float_gt(f.highest_score, score.value)
        THEN g
        ELSE IF IsRaise(authenticity)
        THEN [g EXCEPT !.highest_score = score.value,
                       !.pc = "return", !.outcome = authenticity]
        ELSE [g EXCEPT !.highest_score = score.value,
                       !.best_match = match_dict(plant, authenticity.value, score.value,
                                                 f.barcode_region, f.clean_sequence)]

\* the body of the loop over the plants
analyze_scan(f, plant) ==
    LET g == [f EXCEPT !.scanned = @ + 1]
        barcodes == plant_barcodes(plant)
        plant_barcode == dict_get(barcodes.value, f.barcode_region)
        score == calculate_similarity(f.clean_sequence, plant_barcode)
        authenticity == plant_authenticity(plant)
    IN  IF IsRaise(barcodes)
        THEN [g EXCEPT !.pc = "return", !.outcome = barcodes]
        ELSE IF ~has_key(barcodes.value, f.barcode_region) \/ plant_barcode = <<>>
        THEN g
        ELSE IF IsRaise(score)
        THEN [g EXCEPT !.pc = "return", !.outcome = score]
        ELSE IF ~float_gt(score.value, f.highest_score)
        THEN g
        ELSE IF IsRaise(authenticity)
        THEN [g EXCEPT !.highest_score = score.value,
                       !.pc = "return", !.outcome = authenticity]
        ELSE [g EXCEPT !.highest_score = score.value,
                       !.best_match = match_dict(plant, authenticity.value, score.value,
                                                 f.barcode_region, f.clean_sequence)]

\* return best_match
analyze_exit(f) ==
    IF f.pc = "return" THEN f
    ELSE [f EXCEPT !.pc = "return", !.outcome = Return(f.best_match)]

RECURSIVE analyze_scan_from(_, _, _)
analyze_scan_from(f, plants, i) ==
    IF f.pc # "scan" \/ i > Len(plants) THEN f
    ELSE analyze_scan_from(analyze_scan(f, plants[i]), plants, i + 1)

\* the whole call, over the plants the collection holds
analyze_dna_sequence(sequence) ==
    LET entered == analyze_enter(sequence)
        classified == analyze_classify(entered)
    IN  IF entered.pc = "return" THEN entered
        ELSE IF classified.pc = "return" THEN classified
        ELSE analyze_exit(analyze_scan_from(classified, collection, 1))

\* samples[key] = value
dict_set(d, key, value) ==
    IF has_key(d, key)
    THEN [i \in 1..Len(d) |-> IF d[i][1] = key THEN <<key, value>> ELSE d[i]]
    ELSE Append(d, <<key, value>>)

\* one turn of get_samples' loop over the plants: the first barcode of the plant
\* is stored under its common name
samples_plant(loc, plant) ==
    IF IsRaise(loc) THEN loc
    ELSE IF "barcodes" \notin DOMAIN plant THEN Raise("KeyError")
    ELSE IF plant.barcodes = <<>> THEN loc
    ELSE Return(dict_set(loc.value, plant.commonName, plant.barcodes[1][2]))

RECURSIVE samples_plants(_, _)
samples_plants(plants, n) ==
    IF n = 0 THEN Return(<<>>)
    ELSE samples_plant(samples_plants(plants, n - 1), plants[n])

-----------------------------------------------------------------------------
(* The endpoints *)

Response(status_code, body) == [status_code |-> status_code, body |-> body]

\* an exception that leaves a handler is answered by the framework
InternalServerError(exc) == Response(500, [exception |-> exc])

\* what the handlers answer when analyze_dna_sequence returned nothing
NoMatchResponse ==
    IF app = "backend"
    THEN Response(400, [error |-> "Invalid DNA sequence or no match found"])
    ELSE Response(400, [detail |-> "Invalid DNA sequence or no match found"])

\* a body without the key "sequence": the backend answers it itself, in the
\* server the request model DNASequenceRequest rejects it
NoSequenceResponse ==
    IF app = "backend"
    THEN Response(400, [error |-> "No sequence provided"])
    ELSE Response(422, [detail |-> "Field required"])

\* the response analyze_sequence gives for the frame analyze_dna_sequence left
analyze_response(f) ==
    IF IsRaise(f.outcome) THEN InternalServerError(f.outcome.raise)
    ELSE IF f.outcome.value = None THEN NoMatchResponse
    ELSE Response(200, f.outcome.value)

samples_response(loc) ==
    IF IsRaise(loc) THEN InternalServerError(loc.raise) ELSE Response(200, loc.value)

\* the raw texts a client posts: every text of up to MaxRawLen characters of
\* RawAlphabet, and the longer literal examples
RawAlphabet == {"A", "C", "T", "a", "N", " "}
XYZ123 == <<"x", "y", "z", "1", "2", "3">>
SPACED_ACCT == <<"a", "c", " ", "C", "\t", "t", "\n">>
RawTexts == SeqsUpTo(RawAlphabet, MaxRawLen) \cup {PANAX_ITS, BASIL_RBCL, XYZ123, SPACED_ACCT}

JsonBodies == {[sequence |-> raw] : raw \in RawTexts} \cup {[species |-> <<>>]}

\* the requests a client sends; the backend has no route /
Requests ==
    {[endpoint |-> "/api/analyze", json |-> json] : json \in JsonBodies}
    \cup {[endpoint |-> "/api/samples"]}
    \cup (IF app = "server" THEN {[endpoint |-> "/"]} ELSE {})

\* POST /api/analyze
analyze_sequence ==
    /\ response = None
    /\ request.endpoint = "/api/analyze"
    /\ IF "sequence" \notin DOMAIN request.json
       THEN /\ response' = NoSequenceResponse
            /\ frame' = None
       ELSE /\ frame' = analyze_dna_sequence(request.json.sequence)
            /\ response' = analyze_response(frame')
    /\ UNCHANGED <<app, barcode_regions, collection, request, args, ret, threads>>

\* GET /api/samples
get_samples ==
    /\ response = None
    /\ request.endpoint = "/api/samples"
    /\ response' = samples_response(samples_plants(collection, Len(collection)))
    /\ UNCHANGED <<app, barcode_regions, collection, request, frame, args, ret, threads>>

\* GET / (the server only)
greet_json ==
    /\ response = None
    /\ request.endpoint = "/"
    /\ response' = Response(200, [Hello |-> "World!"])
    /\ UNCHANGED <<app, barcode_regions, collection, request, frame, args, ret, threads>>

(* The documents of the server's collection "barcodes". The database is the  *)
(* deployment's, so the model draws it: up to MaxPlants documents, each with *)
(* one of the contents below, named by its place in the collection.          *)
DocumentContents ==
    { [barcodes |-> << <<"RBCL", <<"A", "T">> >> >>, authenticity |-> Hundredths(50)],
      [barcodes |-> << <<"ITS", <<"C", "G">> >>, <<"RBCL", <<"A", "T">> >> >>],
      [barcodes |-> << <<"RBCL", <<"T", "A">> >> >>, authenticity |-> Fraction(1, 1)],
      [barcodes |-> << <<"MATK", <<"A", "C">> >>, <<"RBCL", <<"A", "A">> >> >>,
       authenticity |-> Hundredths(90)],
      [barcodes |-> << <<"RBCL", <<>> >> >>, authenticity |-> Hundredths(50)],
      [barcodes |-> <<>>, authenticity |-> Hundredths(80)],
      [authenticity |-> Hundredths(70)] }

Document(content, i) ==
    [species |-> "species " \o ToString(i), commonName |-> "plant " \o ToString(i)] @@ content

Collections ==
    UNION { { [i \in 1..n |-> Document(contents[i], i)] :
              contents \in [1..n -> DocumentContents] } : n \in 0..MaxPlants }

Init ==
    /\ app \in {"backend", "server"}
    /\ barcode_regions = BARCODE_REGIONS
    /\ collection \in (IF app = "backend" THEN {DNA_DATABASE} ELSE Collections)
    /\ request \in Requests
    /\ response = None
    /\ frame = None
    /\ args = <<>>
    /\ ret = NotCalled
    /\ threads = <<>>

Next ==
    \/ analyze_sequence
    \/ get_samples
    \/ greet_json

Spec == Init /\ [][Next]_vars

-----------------------------------------------------------------------------
(* Direct calls of calculate_similarity *)

Nucleotides == {"A", "T", "G", "C"}

InitScorer ==
    /\ app \in {"backend", "server"}
    /\ barcode_regions = BARCODE_REGIONS
    /\ collection = DNA_DATABASE
    /\ request = None
    /\ response = None
    /\ frame = None
    /\ args \in SeqsUpTo(Nucleotides, MaxSeqLen) \X SeqsUpTo(Nucleotides, MaxSeqLen)
    /\ ret = NotCalled
    /\ threads = <<>>

call_calculate_similarity ==
    /\ ret = NotCalled
    /\ ret' = calculate_similarity(args[1], args[2])
    /\ UNCHANGED <<app, barcode_regions, collection, request, response, frame, args, threads>>

NextScorer == call_calculate_similarity

SpecScorer == InitScorer /\ [][NextScorer]_vars

-----------------------------------------------------------------------------
(* The backend under concurrent requests. Flask's development server handles *)
(* each request on a thread of its own, so the handlers interleave: between  *)
(* two steps of one handler any other handler may run. A thread is           *)
(*   pc        "idle", or the handler it runs                                *)
(*   request   the request it handles, response the response it gave         *)
(*   f         the frame of its call of analyze_dna_sequence, None before    *)
(*   samples   get_samples' dict so far, i the plants its loop has taken     *)

IdleThread ==
    [pc |-> "idle", request |-> None, response |-> None, f |-> None,
     samples |-> Return(<<>>), i |-> 0]

\* the requests the threads serve
ThreadRequests ==
    {[endpoint |-> "/api/analyze", json |-> [sequence |-> raw]] :
        raw \in {PANAX_ITS, XYZ123, SPACED_ACCT, <<"A", "A">>, <<"T">>}}
    \cup {[endpoint |-> "/api/analyze", json |-> [species |-> <<>>]],
          [endpoint |-> "/api/samples"]}

InitThreads ==
    /\ app = "backend"
    /\ barcode_regions = BARCODE_REGIONS
    /\ collection = DNA_DATABASE
    /\ request = None
    /\ response = None
    /\ frame = None
    /\ args = <<>>
    /\ ret = NotCalled
    /\ threads = [t \in 1..MaxThreads |-> IdleThread]

UnchangedByThreads ==
    UNCHANGED <<app, barcode_regions, collection, request, response, frame, args, ret>>

\* the server hands a request to a free thread
thread_accept(t, req) ==
    /\ threads[t].pc = "idle"
    /\ threads' = [threads EXCEPT ![t] =
           [IdleThread EXCEPT !.request = req,
                              !.pc = IF req.endpoint = "/api/analyze"
                                     THEN "analyze_sequence" ELSE "get_samples"]]
    /\ UnchangedByThreads

\* analyze_sequence up to the first statement of analyze_dna_sequence
thread_enter(t) ==
    /\ threads[t].pc = "analyze_sequence"
    /\ threads[t].f = None
    /\ threads' = [threads EXCEPT ![t] =
           IF "sequence" \notin DOMAIN threads[t].request.json
           THEN [@ EXCEPT !.pc = "idle", !.response = NoSequenceResponse]
           ELSE [@ EXCEPT !.f = analyze_enter(threads[t].request.json.sequence)]]
    /\ UnchangedByThreads

\* analyze_dna_sequence: normalize and classify
thread_classify(t) ==
    /\ threads[t].pc = "analyze_sequence"
    /\ threads[t].f # None
    /\ threads[t].f.pc = "classify"
    /\ threads' = [threads EXCEPT ![t].f = analyze_classify(@)]
    /\ UnchangedByThreads

InLoop(u) ==
    /\ threads[u].pc = "analyze_sequence"
    /\ threads[u].f # None
    /\ threads[u].f.pc = "scan"

\* a loop whose highest_score and best_match are module globals shared by the
\* handlers: a turn reads them as the first thread inside its loop left them
thread_scan_shared(t) ==
    LET u == CHOOSE u \in 1..MaxThreads :
                 InLoop(u) /\ \A v \in 1..MaxThreads : InLoop(v) => u <= v
        shared == [threads[t].f EXCEPT !.highest_score = threads[u].f.highest_score,
                                       !.best_match = threads[u].f.best_match]
    IN  /\ InLoop(t)
        /\ threads[t].f.scanned < Len(collection)
        /\ threads' = [threads EXCEPT
               ![t].f = analyze_scan(shared, collection[shared.scanned + 1])]
        /\ UNCHANGED <<app, barcode_regions, collection, request, response, frame, args, ret>>

\* analyze_dna_sequence: one turn of the loop over DNA_DATABASE
thread_scan(t) ==
    /\ InLoop(t)
    /\ threads[t].f.scanned < Len(collection)
    /\ threads' = [threads EXCEPT ![t].f = analyze_scan(@, collection[@.scanned + 1])]
    /\ UnchangedByThreads

\* analyze_dna_sequence: the loop is over, return best_match
thread_exit(t) ==
    /\ InLoop(t)
    /\ threads[t].f.scanned >= Len(collection)
    /\ threads' = [threads EXCEPT ![t].f = analyze_exit(@)]
    /\ UnchangedByThreads

\* analyze_sequence: answer with what analyze_dna_sequence returned
thread_respond(t) ==
    /\ threads[t].pc = "analyze_sequence"
    /\ threads[t].f # None
    /\ threads[t].f.pc = "return"
    /\ threads' = [threads EXCEPT ![t].pc = "idle",
                                  ![t].response = analyze_response(threads[t].f)]
    /\ UnchangedByThreads

\* get_samples: one turn of the loop over DNA_DATABASE
thread_samples(t) ==
    /\ threads[t].pc = "get_samples"
    /\ threads[t].i < Len(collection)
    /\ threads' = [threads EXCEPT
           ![t].samples = samples_plant(@, collection[threads[t].i + 1]),
           ![t].i = @ + 1]
    /\ UnchangedByThreads

\* get_samples: answer with the dict
thread_samples_respond(t) ==
    /\ threads[t].pc = "get_samples"
    /\ threads[t].i >= Len(collection)
    /\ threads' = [threads EXCEPT ![t].pc = "idle",
                                  ![t].response = samples_response(threads[t].samples)]
    /\ UnchangedByThreads

NextThreads ==
    \/ \E t \in 1..MaxThreads, req \in ThreadRequests : thread_accept(t, req)
    \/ \E t \in 1..MaxThreads : thread_enter(t)
    \/ \E t \in 1..MaxThreads : thread_classify(t)
    \/ \E t \in 1..MaxThreads : thread_scan(t)
    \/ \E t \in 1..MaxThreads : thread_exit(t)
    \/ \E t \in 1..MaxThreads : thread_respond(t)
    \/ \E t \in 1..MaxThreads : thread_samples(t)
    \/ \E t \in 1..MaxThreads : thread_samples_respond(t)

SpecThreads == InitThreads /\ [][NextThreads]_vars

-----------------------------------------------------------------------------
(* Properties of analyze_dna_sequence, checked under Spec *)

\* analyze_sequence has handled the request and called analyze_dna_sequence
Analyzed ==
    /\ response # None
    /\ request.endpoint = "/api/analyze"
    /\ "sequence" \in DOMAIN request.json

RawText == request.json.sequence

\* the raw text with its whitespace removed, then upper-cased
Stripped == SelectSeq(RawText, LAMBDA c : c \notin Whitespace)
Normalized == [i \in 1..Len(Stripped) |-> upper_char(Stripped[i])]
Acceptable == Normalized # <<>> /\ \A i \in 1..Len(Normalized) : Normalized[i] \in Nucleotides

\* the call returned None, or a match
ReturnedNone == frame.outcome = Return(None)
ReturnedMatch == ~IsRaise(frame.outcome) /\ frame.outcome.value # None
MatchResult == frame.outcome.value

\* the similarity of the normalized text to the i-th prototype of BARCODE_REGIONS
PrototypeScore(i) == calculate_similarity(Normalized, barcode_regions[i][2]).value
\* the prototypes no other prototype scores above
BestPrototypes ==
    {i \in 1..Len(barcode_regions) :
        \A j \in 1..Len(barcode_regions) : ~float_gt(PrototypeScore(j), PrototypeScore(i))}
SetMin(S) == CHOOSE i \in S : \A j \in S : i <= j

\* the plants that have a non-empty reference for the classified region
HasReference(plant) ==
    /\ "barcodes" \in DOMAIN plant
    /\ has_key(plant.barcodes, frame.barcode_region)
    /\ dict_get(plant.barcodes, frame.barcode_region) # <<>>
Candidates == {i \in 1..Len(collection) : HasReference(collection[i])}
CandidateScore(i) ==
    calculate_similarity(Normalized,
                         dict_get(collection[i].barcodes, frame.barcode_region)).value
BestCandidates ==
    {i \in Candidates : \A j \in Candidates : ~float_gt(CandidateScore(j), CandidateScore(i))}
Weight(plant) ==
    IF "authenticity" \in DOMAIN plant THEN plant.authenticity ELSE Fraction(1, 1)

\* C1: for a valid input with a classified region, when some plant has a
\* non-empty reference for the region and every such plant scores exactly 0.0,
\* the call returns a match with matchPercentage 0.0, and not None.
C1_ZeroScoreIsReturned ==
    (/\ Analyzed
     /\ Acceptable
     /\ frame.barcode_region # ""
     /\ Candidates # {}
     /\ \A i \in Candidates : CandidateScore(i).num = 0)
        => /\ ReturnedMatch
           /\ MatchResult.matchPercentage.num = 0

\* C2: validate_dna_sequence accepts a raw text exactly when the text without
\* its whitespace, upper-cased, is non-empty and made of A, T, G, C; for any other
\* text analyze_dna_sequence returns None and has neither classified nor scanned;
\* for an accepted text, the sequence classified, scored and echoed is that text.
C2_ValidationAndNormalization ==
    Analyzed =>
        /\ validate_dna_sequence(RawText) <=> Acceptable
        /\ ~Acceptable =>
               /\ ReturnedNone
               /\ frame.bound = {}
               /\ frame.scanned = 0
        /\ Acceptable =>
               /\ "barcode_region" \in frame.bound
               /\ frame.clean_sequence = Normalized
               /\ ReturnedMatch => MatchResult.sequence = Normalized

\* C2's case: a text with whitespace and a lower-case letter is matched
C2_Witness ==
    /\ Analyzed
    /\ \E i \in 1..Len(RawText) : RawText[i] \in Whitespace
    /\ \E i \in 1..Len(RawText) : RawText[i] = "a"
    /\ ReturnedMatch
    /\ MatchResult.sequence = Normalized
    /\ Len(Normalized) < Len(RawText)

\* C3: identify_barcode_region returns the region declared first in
\* BARCODE_REGIONS among those whose prototype scores the maximum, when that
\* maximum is above 0, and the empty classification when every prototype scores 0.
C3_FirstBestRegion ==
    (Analyzed /\ "barcode_region" \in frame.bound) =>
        IF \E i \in 1..Len(barcode_regions) : PrototypeScore(i).num > 0
        THEN frame.barcode_region = barcode_regions[SetMin(BestPrototypes)][1]
        ELSE frame.barcode_region = ""

\* C3's case: two prototypes tie at the maximum and the one declared first wins
C3_Witness ==
    /\ Analyzed
    /\ "barcode_region" \in frame.bound
    /\ Cardinality(BestPrototypes) = 2
    /\ PrototypeScore(SetMin(BestPrototypes)).num > 0
    /\ frame.barcode_region = barcode_regions[SetMin(BestPrototypes)][1]

\* C4: a returned match is the earliest plant of the collection, among those
\* with a reference for the classified region, whose similarity is the highest
\* of any of them; so the Panax ginseng ITS text matches Panax ginseng although
\* Sweet Basil's ITS reference scores 1.0 as well.
C4_FirstBestPlant ==
    (Analyzed /\ ReturnedMatch) =>
        /\ BestCandidates # {}
        /\ MatchResult.matchedSpecies = collection[SetMin(BestCandidates)].species
        /\ MatchResult.commonName = collection[SetMin(BestCandidates)].commonName
        /\ (app = "backend" /\ RawText = PANAX_ITS)
               => MatchResult.matchedSpecies = "Panax ginseng"

\* C4's case: the Panax ginseng ITS text, which the first two plants of
\* DNA_DATABASE both score 1.0
C4_Witness ==
    /\ Analyzed
    /\ app = "backend"
    /\ RawText = PANAX_ITS
    /\ ReturnedMatch
    /\ {1, 2} \subseteq BestCandidates
    /\ float_eq(CandidateScore(2), Fraction(1, 1))
    /\ MatchResult.matchedSpecies = "Panax ginseng"

\* C5: for a valid input the call returns None, and raises nothing, whenever the
\* region is unclassified, the collection is empty, or no plant has a reference
\* for the classified region.
C5_NoMatchIsNone ==
    (/\ Analyzed
     /\ Acceptable
     /\ \/ frame.barcode_region = ""
        \/ collection = <<>>
        \/ Candidates = {})
        => ReturnedNone

\* C5's case: a classified region, plants to scan, none with a reference for it
C5_Witness ==
    /\ Analyzed
    /\ Acceptable
    /\ frame.barcode_region # ""
    /\ Len(collection) = MaxPlants
    /\ frame.scanned = MaxPlants
    /\ \E i \in 1..Len(collection) :
           "barcodes" \in DOMAIN collection[i] /\ collection[i].barcodes # <<>>
    /\ Candidates = {}
    /\ ReturnedNone

\* C6: a returned match carries the matched plant's species and common name, the
\* classified region, the normalized text, matchPercentage = score * 100 and
\* confidenceScore = score * authenticity, with 1.0 for a plant without one.
C6_MatchResultFields ==
    (Analyzed /\ ReturnedMatch) =>
        \E i \in Candidates :
            /\ MatchResult.matchedSpecies = collection[i].species
            /\ MatchResult.commonName = collection[i].commonName
            /\ MatchResult.barcodeRegion = frame.barcode_region
            /\ MatchResult.sequence = Normalized
            /\ MatchResult.matchPercentage.num * CandidateScore(i).den
                   = 100 * CandidateScore(i).num * MatchResult.matchPercentage.den
            /\ MatchResult.confidenceScore.num
                       * (CandidateScore(i).den * Weight(collection[i]).den)
                   = CandidateScore(i).num * Weight(collection[i]).num
                       * MatchResult.confidenceScore.den
            /\ "authenticity" \notin DOMAIN collection[i]
                   => float_eq(MatchResult.confidenceScore, CandidateScore(i))

\* C6's case: the matched plant has no authenticity and a score below 1.0
C6_Witness ==
    /\ Analyzed
    /\ ReturnedMatch
    /\ \E i \in Candidates :
           /\ MatchResult.matchedSpecies = collection[i].species
           /\ "authenticity" \notin DOMAIN collection[i]
           /\ CandidateScore(i).num < CandidateScore(i).den
           /\ float_eq(MatchResult.confidenceScore, CandidateScore(i))

-----------------------------------------------------------------------------
(* Properties of calculate_similarity, checked under SpecScorer *)

Called == ret # NotCalled
CommonLength == Min(Len(args[1]), Len(args[2]))
IsPrefix(a, b) == Len(a) <= Len(b) /\ \A i \in 1..Len(a) : a[i] = b[i]
\* the positions at which both operands hold the same symbol
EqualPositions == {i \in 1..CommonLength : args[1][i] = args[2][i]}

\* C7: calculate_similarity returns 0.0 whenever an operand is empty, and raises
\* for no pair of sequences.
C7_EmptyOperandScoresZero ==
    Called =>
        /\ ~IsRaise(ret)
        /\ CommonLength = 0 => ret.value.num = 0

\* C8: when the common length L is positive the score is the number of equal
\* positions below L divided by L; what lies beyond L in the longer operand does
\* not change it, so a non-empty prefix of the other operand, and a non-empty
\* sequence against itself, score 1.0.
C8_ScoreIsMatchesOverCommonLength ==
    (Called /\ CommonLength > 0) =>
        /\ ~IsRaise(ret)
        /\ float_eq(ret.value, Fraction(Cardinality(EqualPositions), CommonLength))
        /\ ret = calculate_similarity(SubSeq(args[1], 1, CommonLength),
                                      SubSeq(args[2], 1, CommonLength))
        /\ (IsPrefix(args[1], args[2]) \/ IsPrefix(args[2], args[1]))
               => float_eq(ret.value, Fraction(1, 1))
        /\ args[1] = args[2] => float_eq(ret.value, Fraction(1, 1))

\* C8's case: a sequence scored against a longer one that it is a prefix of
C8_Witness ==
    /\ Called
    /\ CommonLength > 0
    /\ Len(args[1]) < Len(args[2])
    /\ IsPrefix(args[1], args[2])
    /\ ~IsRaise(ret)
    /\ float_eq(ret.value, Fraction(1, 1))

\* C9: for all sequences a and b the score lies in [0, 1] and is the score of
\* (b, a).
C9_BoundedAndSymmetric ==
    Called =>
        /\ ~IsRaise(ret)
        /\ float_eq(ret.value, Fraction(0, 1)) \/ float_gt(ret.value, Fraction(0, 1))
        /\ ~float_gt(ret.value, Fraction(1, 1))
        /\ ret = calculate_similarity(args[2], args[1])

-----------------------------------------------------------------------------
(* Properties of concurrent calls, checked under SpecThreads *)

\* the response the request gets when its handler runs from start to end with
\* no other handler running
ResponseAlone(req) ==
    IF req.endpoint = "/api/samples"
    THEN samples_response(samples_plants(collection, Len(collection)))
    ELSE IF "sequence" \notin DOMAIN req.json
    THEN NoSequenceResponse
    ELSE analyze_response(analyze_dna_sequence(req.json.sequence))

Responded(t) == threads[t].pc = "idle" /\ threads[t].response # None

\* C10: the calls are independent and stateless: however the calls of
\* analyze_dna_sequence and get_samples interleave, BARCODE_REGIONS and
\* DNA_DATABASE stay as they were, and each call's outcome is the outcome its
\* input gives when the call runs alone.
C10_CallsAreIndependent ==
    /\ barcode_regions = BARCODE_REGIONS
    /\ collection = DNA_DATABASE
    /\ \A t \in 1..MaxThreads :
           Responded(t) => threads[t].response = ResponseAlone(threads[t].request)

\* C10's case: a call has returned a match while a call for another text, with
\* a lower best score so far, is in the middle of its loop
C10_Witness ==
    \E t, u \in 1..MaxThreads :
        /\ Responded(t)
        /\ threads[t].response.status_code = 200
        /\ threads[t].request.endpoint = "/api/analyze"
        /\ InLoop(u)
        /\ threads[u].f.scanned > 0
        /\ threads[u].f.scanned < Len(collection)
        /\ float_gt(threads[t].f.highest_score, threads[u].f.highest_score)

====
